---- MODULE Spec2Model ----
(***************************************************************************)
(* Video-learning platform: the relational storage (prisma/schema.prisma,  *)
(* supabase/migrations/initial_schema.sql), the video route's progress     *)
(* action and the dashboard loader's progress aggregation.                 *)
(*                                                                         *)
(* Every request is served by a handler that awaits the storage between    *)
(* its steps; handlers of concurrent requests interleave at those awaits.  *)
(* Each storage call (findUnique, create, update, delete) is atomic.       *)
(***************************************************************************)
EXTENDS Integers, FiniteSets, Sequences, TLC

(***************************************************************************)
(* Bounds of the model.                                                    *)
(***************************************************************************)
\* Largest value of the storage clock (now()).
MaxClock == 1

\* Largest number of requests accepted over a run.
MaxRequests == 2

\* Largest number of DELETE statements over a run.
MaxDeletes == 1

(***************************************************************************)
(* The universe of identifiers.  Rows are inserted at Init and only ever   *)
(* deleted afterwards, ids (cuid()/gen_random_uuid()) are never reused.    *)
(***************************************************************************)
UserIds == {"u1", "u2"}

CourseIds == {"cA", "cB"}

\* chapters rows: id, courseId (FOREIGN KEY courses ON DELETE CASCADE)
ChapterRows ==
  { [id |-> "h1", courseId |-> "cA"],
    [id |-> "h2", courseId |-> "cB"] }

\* videos rows: id, chapterId (FOREIGN KEY chapters ON DELETE CASCADE)
VideoRows ==
  { [id |-> "v1", chapterId |-> "h1"],
    [id |-> "v2", chapterId |-> "h1"] }

VideoIds == { v.id : v \in VideoRows }

\* user_courses rows: userId, courseId, UNIQUE (userId, courseId)
UserCourseRows ==
  { [userId |-> "u1", courseId |-> "cA"],
    [userId |-> "u1", courseId |-> "cB"],
    [userId |-> "u2", courseId |-> "cA"] }

\* Clients that issue requests; each has at most one request in flight.
Clients == {"r1", "r2"}

\* The value of a session cookie that holds no authenticated user.
NoUser == "none"

\* params.videoId of a request that carries none.
NoParam == "none"

VARIABLES
  users,        \* ids of the rows of table users
  courses,      \* ids of the rows of table courses
  chapters,     \* rows of table chapters
  videos,       \* rows of table videos
  userCourses,  \* rows of table user_courses
  progress,     \* rows of table user_video_progress
  nextId,       \* the next fresh id of a user_video_progress row
  now,          \* the storage clock
  req,          \* per client: the request in flight and the handler's locals
  accepted,     \* number of requests accepted so far
  deletes       \* number of DELETE statements so far

vars == <<users, courses, chapters, videos, userCourses, progress, nextId, now,
          req, accepted, deletes>>

storage == <<users, courses, chapters, videos, userCourses, progress, nextId>>

(***************************************************************************)
(* Numbers as the dashboard computes them: exact fractions <<num, den>> in *)
(* lowest terms; <<0, 0>> stands for NaN (0 / 0).                          *)
(***************************************************************************)
RECURSIVE Gcd(_, _)
Gcd(a, b) == IF b = 0 THEN a ELSE Gcd(b, a % b)

NaN == <<0, 0>>

Zero == <<0, 1>>

\* a / b of two non-negative integers
Div(a, b) ==
  IF b = 0 THEN (IF a = 0 THEN NaN ELSE <<1, 0>>)
  ELSE LET g == Gcd(a, b) IN <<a \div g, b \div g>>

\* q * n of a fraction and an integer
Times(q, n) ==
  IF q[2] = 0 THEN q
  ELSE LET g == Gcd(q[1] * n, q[2]) IN <<(q[1] * n) \div g, q[2] \div g>>

(***************************************************************************)
(* The handler's locals.                                                   *)
(***************************************************************************)
NoData == [overallProgress |-> Zero, courses |-> {}]

Idle ==
  [ pc |-> "idle", kind |-> "none", user |-> NoUser, courseId |-> NoParam,
    videoId |-> NoParam, completed |-> FALSE, existingProgress |-> {}, result |-> "none",
    data |-> NoData ]

TypeOK ==
  /\ users \subseteq UserIds
  /\ courses \subseteq CourseIds
  /\ chapters \subseteq ChapterRows
  /\ videos \subseteq VideoRows
  /\ userCourses \subseteq UserCourseRows
  /\ \A p \in progress :
       /\ p.id \in 1..(nextId - 1)
       /\ p.userId \in UserIds
       /\ p.videoId \in VideoIds
       /\ p.completed \in BOOLEAN
       /\ p.updatedAt \in 0..MaxClock
  /\ nextId \in Nat
  /\ now \in 0..MaxClock
  /\ accepted \in 0..MaxRequests
  /\ deletes \in 0..MaxDeletes
  /\ \A r \in Clients :
       /\ req[r].pc \in {"idle", "write", "course", "done"}
       /\ req[r].kind \in {"none", "action", "dashboard", "video", "course"}

Init ==
  /\ users = UserIds
  /\ courses = CourseIds
  /\ chapters = ChapterRows
  /\ videos = VideoRows
  /\ userCourses = UserCourseRows
  /\ progress = {}
  /\ nextId = 1
  /\ now = 0
  /\ req = [r \in Clients |-> Idle]
  /\ accepted = 0
  /\ deletes = 0

(***************************************************************************)
(* Storage calls on user_video_progress.                                   *)
(***************************************************************************)
\* a lookup by the video alone
FindUnique_ByVideo(u, v) == { p \in progress : p.videoId = v }

\* prisma.userVideoProgress.findUnique({ where: { userId_videoId } })
FindUnique(u, v) == { p \in progress : p.userId = u /\ p.videoId = v }

\* a table without the foreign keys
ForeignKeysHold_Unchecked(u, v) == TRUE

\* FOREIGN KEY ("userId") REFERENCES users, ("videoId") REFERENCES videos
ForeignKeysHold(u, v) == u \in users /\ v \in { x.id : x \in videos }

\* a table without the unique constraint
UniqueHolds_Unchecked(u, v) == TRUE

\* UNIQUE ("userId", "videoId")
UniqueHolds(u, v) == ~ \E p \in progress : p.userId = u /\ p.videoId = v

\* an update that flips the stored flag instead of storing the given one
UpdateRows_Toggle(id, c) ==
  { IF p.id = id THEN [p EXCEPT !.completed = ~p.completed, !.updatedAt = now]
    ELSE p : p \in progress }

\* an update that leaves updatedAt alone
UpdateRows_NoTimestamp(id, c) ==
  { IF p.id = id THEN [p EXCEPT !.completed = c] ELSE p : p \in progress }

\* an update that removes the row when the video is marked unwatched
UpdateRows_DeleteOnUnwatch(id, c) ==
  IF c
    THEN { IF p.id = id THEN [p EXCEPT !.completed = c, !.updatedAt = now] ELSE p :
             p \in progress }
    ELSE { p \in progress : p.id # id }

\* prisma.userVideoProgress.update({ where: { id }, data: { completed } });
\* updatedAt is @updatedAt: stamped with the time of the update.
UpdateRows(id, c) ==
  { IF p.id = id THEN [p EXCEPT !.completed = c, !.updatedAt = now] ELSE p :
      p \in progress }

\* a create that leaves completed to its @default(false)
CreateRow_DefaultFlag(u, v, c) ==
  [id |-> nextId, userId |-> u, videoId |-> v, completed |-> FALSE,
   updatedAt |-> now]

\* prisma.userVideoProgress.create({ data: { userId, videoId, completed } });
\* id is @default(cuid()), updatedAt is @default(now()).
CreateRow(u, v, c) ==
  [id |-> nextId, userId |-> u, videoId |-> v, completed |-> c, updatedAt |-> now]

(***************************************************************************)
(* ON DELETE CASCADE: the rows that survive the deletion of their parents. *)
(***************************************************************************)
ChaptersOf(cs) == { h \in chapters : h.courseId \in cs }

VideosOf(hs) == { v \in videos : v.chapterId \in { h.id : h \in hs } }

UserCoursesOf(us, cs) ==
  { e \in userCourses : e.userId \in us /\ e.courseId \in cs }

\* a foreign key without ON DELETE CASCADE on user_video_progress
ProgressOf_NoCascade(us, vs) == progress

ProgressOf(us, vs) ==
  { p \in progress : p.userId \in us /\ p.videoId \in { v.id : v \in vs } }

(***************************************************************************)
(* The video route's action (mark watched / mark unwatched).               *)
(***************************************************************************)
\* an action that does not call requireUser and takes the session as it is
ActionFind_NoGate(r, s, v, c) ==
  /\ req[r].pc \in {"idle", "done"}
  /\ accepted < MaxRequests
  /\ accepted' = accepted + 1
  /\ req' = [req EXCEPT ![r] =
       IF v = NoParam
         THEN [Idle EXCEPT !.pc = "done", !.kind = "action", !.user = s,
                           !.result = "400"]
       ELSE [Idle EXCEPT !.pc = "write", !.kind = "action", !.user = s,
                         !.videoId = v, !.completed = c,
                         !.existingProgress = { p.id : p \in FindUnique(s, v) }]]
  /\ UNCHANGED <<storage, now, deletes>>

\* requireUser, the videoId check, the form's "completed" field and
\* const existingProgress = await prisma.userVideoProgress.findUnique(...):
\* the handler up to the return of its first storage call.  Of the row found
\* the handler reads only the id.
ActionFind(r, s, v, c) ==
  /\ req[r].pc \in {"idle", "done"}
  /\ accepted < MaxRequests
  /\ accepted' = accepted + 1
  /\ req' = [req EXCEPT ![r] =
       IF s = NoUser
         THEN [Idle EXCEPT !.pc = "done", !.kind = "action",
                           !.result = "redirect:/login"]
       ELSE IF v = NoParam
         THEN [Idle EXCEPT !.pc = "done", !.kind = "action", !.user = s,
                           !.result = "400"]
       ELSE [Idle EXCEPT !.pc = "write", !.kind = "action", !.user = s,
                         !.videoId = v, !.completed = c,
                         !.existingProgress = { p.id : p \in FindUnique(s, v) }]]
  /\ UNCHANGED <<storage, now, deletes>>

\* if (existingProgress) { await prisma.userVideoProgress.update(...) }
Update(r) ==
  LET id == CHOOSE i \in req[r].existingProgress : TRUE IN
  IF \E p \in progress : p.id = id
    THEN /\ progress' = UpdateRows(id, req[r].completed)
         /\ req' = [req EXCEPT ![r].pc = "done", ![r].result = "success"]
    ELSE \* the row is gone: "Record to update not found"
         /\ progress' = progress
         /\ req' = [req EXCEPT ![r].pc = "done", ![r].result = "P2025"]

\* a create wrapped in a catch that reports success on a unique violation
Create_Swallowing(r) ==
  LET u == req[r].user
      v == req[r].videoId
  IN
  IF ~ForeignKeysHold(u, v)
    THEN /\ progress' = progress
         /\ nextId' = nextId
         /\ req' = [req EXCEPT ![r].pc = "done", ![r].result = "P2003"]
  ELSE IF ~UniqueHolds(u, v)
    THEN /\ progress' = progress
         /\ nextId' = nextId
         /\ req' = [req EXCEPT ![r].pc = "done", ![r].result = "success"]
  ELSE /\ progress' = progress \cup {CreateRow(u, v, req[r].completed)}
       /\ nextId' = nextId + 1
       /\ req' = [req EXCEPT ![r].pc = "done", ![r].result = "success"]

\* else { await prisma.userVideoProgress.create(...) }
Create(r) ==
  LET u == req[r].user
      v == req[r].videoId
  IN
  IF ~ForeignKeysHold(u, v)
    THEN \* "Foreign key constraint failed"
         /\ progress' = progress
         /\ nextId' = nextId
         /\ req' = [req EXCEPT ![r].pc = "done", ![r].result = "P2003"]
  ELSE IF ~UniqueHolds(u, v)
    THEN \* "Unique constraint failed"
         /\ progress' = progress
         /\ nextId' = nextId
         /\ req' = [req EXCEPT ![r].pc = "done", ![r].result = "P2002"]
  ELSE /\ progress' = progress \cup {CreateRow(u, v, req[r].completed)}
       /\ nextId' = nextId + 1
       /\ req' = [req EXCEPT ![r].pc = "done", ![r].result = "success"]

ActionWrite(r) ==
  /\ req[r].pc = "write"
  /\ IF req[r].existingProgress # {}
       THEN Update(r) /\ nextId' = nextId
       ELSE Create(r)
  /\ UNCHANGED <<users, courses, chapters, videos, userCourses, now, accepted,
               deletes>>

(***************************************************************************)
(* The dashboard loader: progress per enrolled course and overall.         *)
(***************************************************************************)
\* chapter.videos.forEach(video => { const videoProgress =
\*   userWithCourses.progress.find(p => p.videoId === video.id);
\*   if (videoProgress?.completed) courseCompletedVideos++ })
\* find returns the first match; rows are read in insertion (id) order.
RECURSIVE CountCompleted(_, _)
CountCompleted(vs, prog) ==
  IF vs = {} THEN 0
  ELSE LET video == CHOOSE v \in vs : TRUE
           matches == { p \in prog : p.videoId = video.id }
           counted ==
             /\ matches # {}
             /\ (CHOOSE p \in matches : \A q \in matches : p.id <= q.id).completed
       IN (IF counted THEN 1 ELSE 0) + CountCompleted(vs \ {video}, prog)

\* userCourse.course.chapters.forEach(chapter => {
\*   courseTotalVideos += chapter.videos.length; ... })
\* <<courseTotalVideos, courseCompletedVideos>>
RECURSIVE CourseCounts(_, _)
CourseCounts(chs, prog) ==
  IF chs = {} THEN <<0, 0>>
  ELSE LET chapter == CHOOSE h \in chs : TRUE
           vs == { v \in videos : v.chapterId = chapter.id }
           rest == CourseCounts(chs \ {chapter}, prog)
       IN <<rest[1] + Cardinality(vs), rest[2] + CountCompleted(vs, prog)>>

\* the percentage without the guard against a course of no videos
CourseProgress_NoGuard(courseCompletedVideos, courseTotalVideos) ==
  Times(Div(courseCompletedVideos, courseTotalVideos), 100)

\* courseTotalVideos > 0 ? (courseCompletedVideos / courseTotalVideos) * 100 : 0
CourseProgress(courseCompletedVideos, courseTotalVideos) ==
  IF courseTotalVideos > 0
    THEN Times(Div(courseCompletedVideos, courseTotalVideos), 100)
    ELSE Zero

\* totalVideos > 0 ? (completedVideos / totalVideos) * 100 : 0
OverallProgress(completedVideos, totalVideos) ==
  IF totalVideos > 0
    THEN Times(Div(completedVideos, totalVideos), 100)
    ELSE Zero

\* totalVideos += courseTotalVideos; completedVideos += courseCompletedVideos
\* over userWithCourses.courses: <<totalVideos, completedVideos>>
RECURSIVE SumCounts(_, _)
SumCounts(cs, prog) ==
  IF cs = {} THEN <<0, 0>>
  ELSE LET c == CHOOSE x \in cs : TRUE
           counts == CourseCounts(ChaptersOf({c}), prog)
           rest == SumCounts(cs \ {c}, prog)
       IN <<rest[1] + counts[1], rest[2] + counts[2]>>

\* the overall percentage as the mean of the per-course percentages
RECURSIVE SumProgress(_, _)
SumProgress(cs, prog) ==
  IF cs = {} THEN Zero
  ELSE LET c == CHOOSE x \in cs : TRUE
           counts == CourseCounts(ChaptersOf({c}), prog)
           q == CourseProgress(counts[2], counts[1])
           rest == SumProgress(cs \ {c}, prog)
       IN Div(q[1] * rest[2] + rest[1] * q[2], q[2] * rest[2])

DashboardData_Average(u) ==
  LET enrolled == { e.courseId : e \in UserCoursesOf({u}, courses) }
      prog == { p \in progress : p.userId = u }
      sum == SumProgress(enrolled, prog)
  IN [ overallProgress |->
         IF enrolled = {} THEN Zero
         ELSE Div(sum[1], sum[2] * Cardinality(enrolled)),
       courses |->
         { [id |-> c,
            progress |->
              LET counts == CourseCounts(ChaptersOf({c}), prog)
              IN CourseProgress(counts[2], counts[1])] : c \in enrolled } ]

\* json({ user: userWithCourses, overallProgress, courses: coursesWithProgress })
DashboardData(u) ==
  LET enrolled == { e.courseId : e \in UserCoursesOf({u}, courses) }
      prog == { p \in progress : p.userId = u }
      sums == SumCounts(enrolled, prog)
  IN [ overallProgress |-> OverallProgress(sums[2], sums[1]),
       courses |->
         { [id |-> c,
            progress |->
              LET counts == CourseCounts(ChaptersOf({c}), prog)
              IN CourseProgress(counts[2], counts[1])] : c \in enrolled } ]

\* a loader that inserts a row for an enrolled video that has none
DashboardLoader_Inserting(r, s) ==
  LET missing ==
        { v \in VideosOf(ChaptersOf({ e.courseId : e \in UserCoursesOf({s}, courses) })) :
            FindUnique(s, v.id) = {} }
  IN
  /\ req[r].pc \in {"idle", "done"}
  /\ accepted < MaxRequests
  /\ accepted' = accepted + 1
  /\ req' = [req EXCEPT ![r] =
       IF s = NoUser
         THEN [Idle EXCEPT !.pc = "done", !.kind = "dashboard",
                           !.result = "redirect:/login"]
       ELSE IF s \notin users
         THEN [Idle EXCEPT !.pc = "done", !.kind = "dashboard", !.user = s,
                           !.result = "404"]
       ELSE [Idle EXCEPT !.pc = "done", !.kind = "dashboard", !.user = s,
                         !.result = "200", !.data = DashboardData(s)]]
  /\ IF s \in users /\ missing # {}
       THEN /\ progress' = progress \cup
                 {CreateRow(s, (CHOOSE v \in missing : TRUE).id, FALSE)}
            /\ nextId' = nextId + 1
       ELSE UNCHANGED <<progress, nextId>>
  /\ UNCHANGED <<users, courses, chapters, videos, userCourses, now, deletes>>

\* requireUser, prisma.user.findUnique with the enrolled courses and the
\* user's progress, then the aggregation; one storage call, no writes.
DashboardLoader(r, s) ==
  /\ req[r].pc \in {"idle", "done"}
  /\ accepted < MaxRequests
  /\ accepted' = accepted + 1
  /\ req' = [req EXCEPT ![r] =
       IF s = NoUser
         THEN [Idle EXCEPT !.pc = "done", !.kind = "dashboard",
                           !.result = "redirect:/login"]
       ELSE IF s \notin users
         THEN [Idle EXCEPT !.pc = "done", !.kind = "dashboard", !.user = s,
                           !.result = "404"]
       ELSE [Idle EXCEPT !.pc = "done", !.kind = "dashboard", !.user = s,
                         !.result = "200", !.data = DashboardData(s)]]
  /\ UNCHANGED <<storage, now, deletes>>

(***************************************************************************)
(* Deletions at the storage boundary, with their cascades.                 *)
(***************************************************************************)
DeleteUser(u) ==
  /\ u \in users
  /\ deletes < MaxDeletes
  /\ deletes' = deletes + 1
  /\ users' = users \ {u}
  /\ userCourses' = UserCoursesOf(users', courses)
  /\ progress' = ProgressOf(users', videos)
  /\ UNCHANGED <<courses, chapters, videos, nextId, now, req, accepted>>

DeleteVideo(v) ==
  /\ v \in videos
  /\ deletes < MaxDeletes
  /\ deletes' = deletes + 1
  /\ videos' = videos \ {v}
  /\ progress' = ProgressOf(users, videos')
  /\ UNCHANGED <<users, courses, chapters, userCourses, nextId, now, req, accepted>>

DeleteChapter(h) ==
  /\ h \in chapters
  /\ deletes < MaxDeletes
  /\ deletes' = deletes + 1
  /\ chapters' = chapters \ {h}
  /\ videos' = VideosOf(chapters')
  /\ progress' = ProgressOf(users, videos')
  /\ UNCHANGED <<users, courses, userCourses, nextId, now, req, accepted>>

DeleteCourse(c) ==
  /\ c \in courses
  /\ deletes < MaxDeletes
  /\ deletes' = deletes + 1
  /\ courses' = courses \ {c}
  /\ chapters' = ChaptersOf(courses')
  /\ videos' = VideosOf(chapters')
  /\ userCourses' = UserCoursesOf(users, courses')
  /\ progress' = ProgressOf(users, videos')
  /\ UNCHANGED <<users, nextId, now, req, accepted>>

\* time passes
Tick ==
  /\ now < MaxClock
  /\ now' = now + 1
  /\ UNCHANGED <<storage, req, accepted, deletes>>

Next ==
  \/ \E r \in Clients, s \in UserIds \cup {NoUser},
        v \in VideoIds \cup {NoParam}, c \in BOOLEAN : ActionFind(r, s, v, c)
  \/ \E r \in Clients : ActionWrite(r)
  \/ \E r \in Clients, s \in UserIds \cup {NoUser} : DashboardLoader(r, s)
  \/ \E u \in UserIds : DeleteUser(u)
  \/ \E v \in VideoRows : DeleteVideo(v)
  \/ \E h \in ChapterRows : DeleteChapter(h)
  \/ \E c \in CourseIds : DeleteCourse(c)
  \/ Tick

Spec == Init /\ [][Next]_vars

(***************************************************************************)
(* The page loaders: the video page and the course page.                   *)
(***************************************************************************)
\* a relation filter that forgets the user
UserProgress_AllUsers(u, v) == { p \in progress : p.videoId = v }

\* include: { userProgress: { where: { userId: user.id } } } of video v
UserProgress(u, v) == { p \in progress : p.videoId = v /\ p.userId = u }

\* a page that shows every video as not completed, whatever the rows say
IsCompleted_Initial(userProgress) == FALSE

\* video.userProgress.some((p) => p.completed)
IsCompleted(userProgress) == \E p \in userProgress : p.completed

\* course.chapters[].videos[] with userProgress.some((p) => p.completed):
\* the videos the page's sidebar marks as completed
SidebarCompleted(u, c) ==
  { v.id : v \in { x \in VideosOf(ChaptersOf({c})) : IsCompleted(UserProgress(u, x.id)) } }

\* the video loader: requireUser, the params check, prisma.video.findUnique
\* with its chapter and the user's progress, and the checks on its result.
\* isCompleted is computed from the rows this call returned.
VideoFind(r, s, c, v) ==
  /\ req[r].pc \in {"idle", "done"}
  /\ accepted < MaxRequests
  /\ accepted' = accepted + 1
  /\ req' = [req EXCEPT ![r] =
       IF s = NoUser
         THEN [Idle EXCEPT !.pc = "done", !.kind = "video",
                           !.result = "redirect:/login"]
       ELSE IF c = NoParam \/ v = NoParam
         THEN [Idle EXCEPT !.pc = "done", !.kind = "video", !.user = s,
                           !.result = "400"]
       ELSE IF ~ \E x \in videos : x.id = v
         THEN [Idle EXCEPT !.pc = "done", !.kind = "video", !.user = s,
                           !.courseId = c, !.videoId = v, !.result = "404"]
       ELSE IF \A x \in videos, h \in chapters :
                 (x.id = v /\ h.id = x.chapterId) => h.courseId # c
         THEN [Idle EXCEPT !.pc = "done", !.kind = "video", !.user = s,
                           !.courseId = c, !.videoId = v, !.result = "400"]
       ELSE [Idle EXCEPT !.pc = "course", !.kind = "video", !.user = s,
                         !.courseId = c, !.videoId = v,
                         !.data = [isCompleted |-> IsCompleted(UserProgress(s, v)),
                                   completedVideos |-> {}]]]
  /\ UNCHANGED <<storage, now, deletes>>

\* the video loader: prisma.course.findUnique for the sidebar, and the return
VideoCourse(r) ==
  /\ req[r].pc = "course"
  /\ req' = [req EXCEPT ![r] =
       IF req[r].courseId \notin courses
         THEN [req[r] EXCEPT !.pc = "done", !.result = "404", !.data = NoData]
         ELSE [req[r] EXCEPT !.pc = "done", !.result = "200",
                 !.data.completedVideos =
                     SidebarCompleted(req[r].user, req[r].courseId)]]
  /\ UNCHANGED <<storage, now, accepted, deletes>>

\* the course loader: requireUser, the courseId check, prisma.course.findUnique
CourseLoader(r, s, c) ==
  /\ req[r].pc \in {"idle", "done"}
  /\ accepted < MaxRequests
  /\ accepted' = accepted + 1
  /\ req' = [req EXCEPT ![r] =
       IF s = NoUser
         THEN [Idle EXCEPT !.pc = "done", !.kind = "course",
                           !.result = "redirect:/login"]
       ELSE IF c = NoParam
         THEN [Idle EXCEPT !.pc = "done", !.kind = "course", !.user = s,
                           !.result = "400"]
       ELSE IF c \notin courses
         THEN [Idle EXCEPT !.pc = "done", !.kind = "course", !.user = s,
                           !.courseId = c, !.result = "404"]
       ELSE [Idle EXCEPT !.pc = "done", !.kind = "course", !.user = s,
                         !.courseId = c, !.result = "200",
                         !.data = [completedVideos |-> SidebarCompleted(s, c)]]]
  /\ UNCHANGED <<storage, now, deletes>>

\* all the routes that touch user_video_progress, with the deletions; the
\* clock stands still, no page shows a timestamp
NextPage ==
  \/ \E r \in Clients, s \in UserIds \cup {NoUser},
        v \in VideoIds \cup {NoParam}, c \in BOOLEAN : ActionFind(r, s, v, c)
  \/ \E r \in Clients : ActionWrite(r)
  \/ \E r \in Clients, s \in UserIds \cup {NoUser} : DashboardLoader(r, s)
  \/ \E r \in Clients, s \in UserIds \cup {NoUser},
        c \in CourseIds \cup {NoParam}, v \in VideoIds \cup {NoParam} :
          VideoFind(r, s, c, v)
  \/ \E r \in Clients : VideoCourse(r)
  \/ \E r \in Clients, s \in UserIds \cup {NoUser},
        c \in CourseIds \cup {NoParam} : CourseLoader(r, s, c)
  \/ \E u \in UserIds : DeleteUser(u)
  \/ \E v \in VideoRows : DeleteVideo(v)
  \/ \E h \in ChapterRows : DeleteChapter(h)
  \/ \E c \in CourseIds : DeleteCourse(c)

PageSpec == Init /\ [][NextPage]_vars

(***************************************************************************)
(* The embed resolver of the video page.  A URL is a sequence of           *)
(* one-character strings.                                                  *)
(***************************************************************************)
\* {11} of the YouTube pattern
IdLen == 11

\* the longest id part the URLs of ResolverSpec carry
MaxRun == 12

\* \d
Digit == {"0", "1", "2", "3", "4", "5", "6", "7", "8", "9"}

\* [\w-]
WordOrDash ==
  {"A", "B", "C", "D", "E", "F", "G", "H", "I", "J", "K", "L", "M", "N", "O",
      "P", "Q", "R", "S", "T", "U", "V", "W", "X", "Y", "Z", "a", "b", "c",
      "d", "e", "f", "g", "h", "i", "j", "k", "l", "m", "n", "o", "p", "q",
      "r", "s", "t", "u", "v", "w", "x", "y", "z", "0", "1", "2", "3", "4",
      "5", "6", "7", "8", "9", "_", "-"}

\* the literals of the YouTube pattern: youtu\.be\/ and
\* youtube\.com\/(?:embed\/|v\/|watch\?v=)
YoutuBe == <<"y", "o", "u", "t", "u", ".", "b", "e", "/">>
YoutubeEmbed ==
  <<"y", "o", "u", "t", "u", "b", "e", ".", "c", "o", "m", "/", "e", "m", "b",
     "e", "d", "/">>
YoutubeV ==
  <<"y", "o", "u", "t", "u", "b", "e", ".", "c", "o", "m", "/", "v", "/">>
YoutubeWatch ==
  <<"y", "o", "u", "t", "u", "b", "e", ".", "c", "o", "m", "/", "w", "a", "t",
     "c", "h", "?", "v", "=">>
YoutubeLiterals == {YoutuBe, YoutubeEmbed, YoutubeV, YoutubeWatch}

\* the literal of the Vimeo pattern: vimeo\.com\/
VimeoCom == <<"v", "i", "m", "e", "o", ".", "c", "o", "m", "/">>

\* the result of a match that failed, and of getVideoId's "return null"
NoMatch == <<>>
Null == [type |-> "null", id |-> NoMatch]

\* the literal lit stands in url at position i
LiteralAt(lit, url, i) ==
  /\ i + Len(lit) - 1 <= Len(url)
  /\ \A k \in 1..Len(lit) : url[i + k - 1] = lit[k]

\* group 1 of the YouTube pattern when the pattern matches at position i,
\* NoMatch otherwise
YoutubeAt(url, i) ==
  LET lits == { l \in YoutubeLiterals :
                  /\ LiteralAt(l, url, i)
                  /\ i + Len(l) + IdLen - 1 <= Len(url)
                  /\ \A k \in 0..(IdLen - 1) : url[i + Len(l) + k] \in WordOrDash }
  IN IF lits = {} THEN NoMatch
     ELSE LET l == CHOOSE x \in lits : TRUE
          IN SubSeq(url, i + Len(l), i + Len(l) + IdLen - 1)

\* url.match(youtube pattern)[1]: the match at the leftmost position
RECURSIVE YoutubeFrom(_, _)
YoutubeFrom(url, i) ==
  IF i > Len(url) THEN NoMatch
  ELSE IF YoutubeAt(url, i) # NoMatch THEN YoutubeAt(url, i)
  ELSE YoutubeFrom(url, i + 1)

youtubeMatch(url) == YoutubeFrom(url, 1)

\* a digit run of one digit only
Digits_One(url, j) ==
  IF j <= Len(url) /\ url[j] \in Digit THEN <<url[j]>> ELSE <<>>

\* \d+ from position j: greedy, all the digits that follow
RECURSIVE Digits(_, _)
Digits(url, j) ==
  IF j <= Len(url) /\ url[j] \in Digit
    THEN <<url[j]>> \o Digits(url, j + 1)
    ELSE <<>>

\* group 1 of the Vimeo pattern when the pattern matches at position i
VimeoAt(url, i) ==
  IF LiteralAt(VimeoCom, url, i) THEN Digits(url, i + Len(VimeoCom)) ELSE NoMatch

\* url.match(vimeo pattern)[1]: the match at the leftmost position
RECURSIVE VimeoFrom(_, _)
VimeoFrom(url, i) ==
  IF i > Len(url) THEN NoMatch
  ELSE IF VimeoAt(url, i) # NoMatch THEN VimeoAt(url, i)
  ELSE VimeoFrom(url, i + 1)

vimeoMatch(url) == VimeoFrom(url, 1)

\* a resolver that tries Vimeo before YouTube
getVideoId_VimeoFirst(url) ==
  IF vimeoMatch(url) # NoMatch THEN [type |-> "vimeo", id |-> vimeoMatch(url)]
  ELSE IF youtubeMatch(url) # NoMatch
    THEN [type |-> "youtube", id |-> youtubeMatch(url)]
  ELSE Null

\* a resolver without its Vimeo case
getVideoId_YoutubeOnly(url) ==
  IF youtubeMatch(url) # NoMatch
    THEN [type |-> "youtube", id |-> youtubeMatch(url)]
    ELSE Null

getVideoId(url) ==
  IF youtubeMatch(url) # NoMatch
    THEN [type |-> "youtube", id |-> youtubeMatch(url)]
  ELSE IF vimeoMatch(url) # NoMatch
    THEN [type |-> "vimeo", id |-> vimeoMatch(url)]
  ELSE Null

\* the src prefixes of the two players
YoutubeEmbedSrc ==
  <<"h", "t", "t", "p", "s", ":", "/", "/", "w", "w", "w", ".", "y", "o", "u",
     "t", "u", "b", "e", ".", "c", "o", "m", "/", "e", "m", "b", "e", "d",
     "/">>
VimeoPlayerSrc ==
  <<"h", "t", "t", "p", "s", ":", "/", "/", "p", "l", "a", "y", "e", "r", ".",
     "v", "i", "m", "e", "o", ".", "c", "o", "m", "/", "v", "i", "d", "e",
     "o", "/">>

\* the children of the player area: three conditionals, each on videoInfo
PlayerArea(videoInfo) ==
  (IF videoInfo.type = "youtube"
     THEN {[element |-> "iframe", src |-> YoutubeEmbedSrc \o videoInfo.id]}
     ELSE {})
  \cup (IF videoInfo.type = "vimeo"
          THEN {[element |-> "iframe", src |-> VimeoPlayerSrc \o videoInfo.id]}
          ELSE {})
  \cup (IF videoInfo = Null
          THEN {[element |-> "p", src |-> NoMatch]}
          ELSE {})

\* VideoDetail renders the loaded page of client r
VideoDetail(r) ==
  /\ req[r].pc = "done"
  /\ req[r].kind = "video"
  /\ req[r].result = "200"
  /\ req' = [req EXCEPT ![r] =
       [req[r] EXCEPT !.pc = "rendered",
          !.data = [videoUrl |-> req[r].data.videoUrl,
                    isCompleted |-> req[r].data.isCompleted,
                    videoInfo |-> getVideoId(req[r].data.videoUrl),
                    playerArea |-> PlayerArea(getVideoId(req[r].data.videoUrl))]]]
  /\ UNCHANGED <<storage, now, accepted, deletes>>

\* the videoUrl values of the loaded pages: what stands before the host,
\* the host, an id part cut to every length up to MaxRun, and what follows
UrlLeads ==
  { <<>>,
    <<"h", "t", "t", "p", "s", ":", "/", "/">>,
    <<"h", "t", "t", "p", "s", ":", "/", "/", "r", ".", "i", "o", "/", "?", "a",
       "=", "v", "i", "m", "e", "o", ".", "c", "o", "m", "/", "7", "&", "b",
       "=">> }
UrlHosts ==
  { YoutuBe, YoutubeEmbed, YoutubeV, YoutubeWatch, VimeoCom,
    <<"y", "o", "u", "t", "u", "x", "b", "e", "/">>,
    <<"y", "o", "u", "t", "u", "b", "e", ".", "c", "o", "m", "/">>,
    <<"y", "o", "u", "t", "u", "b", "e", ".", "c", "o", "m", "/", "w", "a", "t",
       "c", "h", "?", "x", "=">>,
    <<"e", "x", "a", "m", "p", "l", "e", ".", "c", "o", "m", "/">> }
UrlIdParts ==
  { <<"d", "Q", "w", "4", "w", "9", "W", "_", "X", "-", "Q", "a", "b">>,
    <<"7", "6", "9", "7", "9", "8", "7", "1", "2", "3", "4", "5", "6">>,
    <<"d", "Q", "w", "4", "w", "9", ".", "g", "X", "c", "Q", "a", "b">> }
UrlTails ==
  { <<>>,
    <<"?", "t", "=", "1">>,
    <<"&", "u", "=", "v", "i", "m", "e", "o", ".", "c", "o", "m", "/", "7",
       "6">> }
Urls ==
  { l \o h \o SubSeq(b, 1, n) \o t :
      l \in UrlLeads, h \in UrlHosts, b \in UrlIdParts, n \in 0..MaxRun,
      t \in UrlTails }

\* client r1 holds a loaded video page whose video has any of the URLs
InitResolver ==
  /\ users = UserIds
  /\ courses = CourseIds
  /\ chapters = ChapterRows
  /\ videos = VideoRows
  /\ userCourses = UserCourseRows
  /\ progress = {}
  /\ nextId = 1
  /\ now = 0
  /\ accepted = 1
  /\ deletes = 0
  /\ \E url \in Urls :
       req = [r \in Clients |->
                IF r = "r1"
                  THEN [Idle EXCEPT !.pc = "done", !.kind = "video",
                          !.user = "u1", !.courseId = "cA", !.videoId = "v1",
                          !.result = "200",
                          !.data = [videoUrl |-> url, isCompleted |-> FALSE]]
                  ELSE Idle]

NextResolver == \E r \in Clients : VideoDetail(r)

ResolverSpec == InitResolver /\ [][NextResolver]_vars

(***************************************************************************)
(* The login: the verify callback of the Supabase strategy, which signs in *)
(* at the identity provider and synchronises the User row.  Under          *)
(* LoginSpec the variable users holds the User rows with their columns.    *)
(***************************************************************************)
\* a property that is absent (undefined) and a column that is NULL
Undefined == "undefined"
NullColumn == "null"

\* the values of data.user that the identity provider returns (a response
\* is the set of its data.user: empty when it carries an error or no user): the same
\* identity with its metadata absent, set and changed, and a second
\* identity, once with an address of its own and once with the first one's
SupabaseUsers ==
  { [id |-> "u1", email |-> "a@x", name |-> Undefined, avatar_url |-> Undefined,
     email_confirmed_at |-> Undefined, role |-> Undefined],
    [id |-> "u1", email |-> "a@x", name |-> "Ann", avatar_url |-> Undefined,
     email_confirmed_at |-> Undefined, role |-> Undefined],
    [id |-> "u1", email |-> "a@x", name |-> "Ann B", avatar_url |-> "img",
     email_confirmed_at |-> "t1", role |-> "admin"],
    [id |-> "u2", email |-> "b@x", name |-> "Bob", avatar_url |-> Undefined,
     email_confirmed_at |-> "t1", role |-> Undefined],
    [id |-> "u2", email |-> "a@x", name |-> "Bob", avatar_url |-> Undefined,
     email_confirmed_at |-> "t1", role |-> Undefined] }

\* a client before its first request, and a login request as it starts
LoginIdle ==
  [ pc |-> "idle", kind |-> "none", supabaseUser |-> {}, user |-> {},
    result |-> "none", sessionUser |-> {} ]

\* a column written from a property that may be undefined: NULL on create
OrNull(x) == IF x = Undefined THEN NullColumn ELSE x

\* the data of prisma.user.create
CreateUserRow(d) ==
  [ id |-> d.id,
    email |-> OrNull(d.email),
    name |-> OrNull(d.name),
    image |-> OrNull(d.avatar_url),
    emailVerified |->
      IF d.email_confirmed_at # Undefined THEN d.email_confirmed_at ELSE NullColumn,
    role |-> IF d.role # Undefined THEN d.role ELSE "user" ]

\* the data of prisma.user.update applied to the stored row: an undefined
\* value leaves its column as it is; user is the row the lookup returned
UpdateUserRow(row, d, user) ==
  [ row EXCEPT
      !.name = IF d.name = Undefined THEN @ ELSE d.name,
      !.image = IF d.avatar_url = Undefined THEN @ ELSE d.avatar_url,
      !.emailVerified =
        IF d.email_confirmed_at # Undefined THEN d.email_confirmed_at ELSE NullColumn,
      !.role = IF d.role # Undefined THEN d.role ELSE user.role ]

\* the form's fields, signInWithPassword and prisma.user.findUnique: the
\* callback up to the return of its storage lookup
LoginFind(r, email, password, response) ==
  /\ req[r].pc \in {"idle", "done"}
  /\ accepted < MaxRequests
  /\ accepted' = accepted + 1
  /\ req' = [req EXCEPT ![r] =
       IF email = NoParam
         THEN [LoginIdle EXCEPT !.pc = "done", !.kind = "login",
                                !.result = "Email is required"]
       ELSE IF password = NoParam
         THEN [LoginIdle EXCEPT !.pc = "done", !.kind = "login",
                                !.result = "Password is required"]
       ELSE IF response = {}
         THEN [LoginIdle EXCEPT !.pc = "done", !.kind = "login",
                                !.result = "Invalid credentials"]
       ELSE [LoginIdle EXCEPT !.pc = "sync", !.kind = "login",
                              !.supabaseUser = response,
                              !.user = { u \in users :
                                           \E d \in response : u.id = d.id }]]
  /\ UNCHANGED <<storage, now, deletes>>

\* if (!user) { user = await prisma.user.create(...) }
\* else { await prisma.user.update(...) }  return user
LoginSync(r) ==
  LET d == CHOOSE x \in req[r].supabaseUser : TRUE
      found == req[r].user
  IN
  /\ req[r].pc = "sync"
  /\ IF found = {}
       THEN IF \E u \in users : u.id = d.id \/ u.email = CreateUserRow(d).email
              THEN \* "Unique constraint failed" on id or on email
                   /\ users' = users
                   /\ req' = [req EXCEPT ![r].pc = "done", ![r].result = "P2002"]
              ELSE /\ users' = users \cup {CreateUserRow(d)}
                   /\ req' = [req EXCEPT ![r].pc = "done", ![r].result = "success",
                                         ![r].user = {CreateUserRow(d)},
                                         ![r].sessionUser = {CreateUserRow(d)}]
       ELSE LET user == CHOOSE u \in found : TRUE IN
            IF \E u \in users : u.id = user.id
              THEN /\ users' = { IF u.id = user.id THEN UpdateUserRow(u, d, user) ELSE u :
                                   u \in users }
                   /\ req' = [req EXCEPT ![r].pc = "done", ![r].result = "success",
                                         ![r].sessionUser = found]
              ELSE \* "Record to update not found"
                   /\ users' = users
                   /\ req' = [req EXCEPT ![r].pc = "done", ![r].result = "P2025"]
  /\ UNCHANGED <<courses, chapters, videos, userCourses, progress, nextId, now,
               accepted, deletes>>

\* a User row is deleted at the storage boundary
DeleteUserRow(u) ==
  /\ u \in users
  /\ deletes < MaxDeletes
  /\ deletes' = deletes + 1
  /\ users' = users \ {u}
  /\ UNCHANGED <<courses, chapters, videos, userCourses, progress, nextId, now,
               req, accepted>>

\* no User row yet; the catalogue as in Init
InitLogin ==
  /\ users = {}
  /\ courses = CourseIds
  /\ chapters = ChapterRows
  /\ videos = VideoRows
  /\ userCourses = {}
  /\ progress = {}
  /\ nextId = 1
  /\ now = 0
  /\ req = [r \in Clients |-> LoginIdle]
  /\ accepted = 0
  /\ deletes = 0

NextLogin ==
  \/ \E r \in Clients, email, password \in {NoParam, "given"},
        response \in {{}} \cup { {d} : d \in SupabaseUsers } :
          LoginFind(r, email, password, response)
  \/ \E r \in Clients : LoginSync(r)
  \/ \E u \in users : DeleteUserRow(u)

LoginSpec == InitLogin /\ [][NextLogin]_vars

(***************************************************************************)
(* The aggregation over a larger catalogue.  The dashboard loader is run   *)
(* on every table of a catalogue of two courses, of four videos in two     *)
(* chapters and of one video: any subset of the videos exists, user u1     *)
(* has no row, a row not completed or a completed row for each of them,    *)
(* and user u2 has either no row or a completed row for every video.       *)
(***************************************************************************)
AggChapterRows ==
  { [id |-> "hA1", courseId |-> "cA"],
    [id |-> "hA2", courseId |-> "cA"],
    [id |-> "hB1", courseId |-> "cB"] }

AggVideoRows ==
  { [id |-> "a1", chapterId |-> "hA1"],
    [id |-> "a2", chapterId |-> "hA1"],
    [id |-> "a3", chapterId |-> "hA2"],
    [id |-> "a4", chapterId |-> "hA2"],
    [id |-> "b1", chapterId |-> "hB1"] }

\* the ids of the rows of user_video_progress, in insertion order
AggRowId ==
  [ u \in UserIds |->
      [ v \in { x.id : x \in AggVideoRows } |->
          (IF u = "u1" THEN 0 ELSE 5)
            + (CASE v = "a1" -> 1 [] v = "a2" -> 2 [] v = "a3" -> 3
                 [] v = "a4" -> 4 [] OTHER -> 5) ] ]

InitAgg ==
  /\ users = UserIds
  /\ courses = CourseIds
  /\ chapters = AggChapterRows
  /\ videos \in SUBSET AggVideoRows
  /\ userCourses = UserCourseRows
  /\ \E f \in [ { v.id : v \in videos } -> {"none", "no", "yes"} ], all \in BOOLEAN :
       progress =
         { [id |-> AggRowId["u1"][v], userId |-> "u1", videoId |-> v,
            completed |-> (f[v] = "yes"), updatedAt |-> 0] :
             v \in { x \in DOMAIN f : f[x] # "none" } }
         \cup
         { [id |-> AggRowId["u2"][v], userId |-> "u2", videoId |-> v,
            completed |-> TRUE, updatedAt |-> 0] :
             v \in { x \in DOMAIN f : all } }
  /\ nextId = 11
  /\ now = 0
  /\ req = [r \in Clients |-> Idle]
  /\ accepted = 0
  /\ deletes = 0

NextAgg ==
  \/ \E r \in Clients, s \in UserIds \cup {NoUser} : DashboardLoader(r, s)
  \/ Tick

AggSpec == InitAgg /\ [][NextAgg]_vars

(***************************************************************************)
(* Vocabulary of the properties.                                           *)
(***************************************************************************)
\* the rows of table t for the pair (u, v)
RowsFor(t, u, v) == { p \in t : p.userId = u /\ p.videoId = v }

RowIds(t) == { p.id : p \in t }

\* the step of client r is the write (update or create) of its action
WriteStep(r) == req[r].pc = "write" /\ req'[r].pc = "done"

\* the lookup of r's action in flight saw the rows that exist now
FreshLookup(r) ==
  req[r].existingProgress = RowIds(RowsFor(progress, req[r].user, req[r].videoId))

\* r's action has returned with the given result for (u, v) and flag c
Returned(r, u, v, c, result) ==
  /\ req[r].pc = "done"
  /\ req[r].kind = "action"
  /\ req[r].user = u
  /\ req[r].videoId = v
  /\ req[r].completed = c
  /\ req[r].result = result

(***************************************************************************)
(* C1.  In every reachable state, whatever the interleaving of the actions *)
(* of any users on any videos, there is at most one progress row for each  *)
(* (user, video) pair.                                                     *)
(***************************************************************************)
C1_AtMostOneRecordPerPair ==
  \A u \in UserIds, v \in VideoIds : Cardinality(RowsFor(progress, u, v)) <= 1

\* two actions on the same pair have both returned and the pair has a row
C1_Witness ==
  \E u \in UserIds, v \in VideoIds, c1, c2 \in BOOLEAN, res \in {"success", "P2002"} :
    /\ Returned("r1", u, v, c1, "success")
    /\ Returned("r2", u, v, c2, res)
    /\ RowsFor(progress, u, v) # {}

\* a row without its timestamp: what "the same record and flag" compares
IdAndFlag(t) == { [id |-> p.id, completed |-> p.completed] : p \in t }

(***************************************************************************)
(* C2.  Idempotence: when (u, v) already has a row with completed = TRUE   *)
(* (an earlier setCompletion(u, v, TRUE)), the write of a further          *)
(* setCompletion(u, v, TRUE) leaves exactly one row for (u, v), the same   *)
(* row (same id) with completed = TRUE; and a call whose lookup is not     *)
(* overtaken by another request succeeds.                                  *)
(***************************************************************************)
C2_Idempotent ==
  [][\A r \in Clients :
       LET u == req[r].user
           v == req[r].videoId
           before == RowsFor(progress, u, v)
           after == RowsFor(progress', u, v)
       IN (WriteStep(r) /\ req[r].completed /\ before # {}
             /\ \A p \in before : p.completed)
          => /\ Cardinality(after) = 1
             /\ IdAndFlag(after) = IdAndFlag(before)
             /\ \A p \in after : p.completed
             /\ FreshLookup(r) => req'[r].result = "success"]_vars

\* setCompletion(u, v, TRUE) has returned twice: once creating the row and
\* once finding it, and the pair has one completed row
C2_Witness ==
  \E u \in UserIds, v \in VideoIds :
    /\ Returned("r1", u, v, TRUE, "success")
    /\ Returned("r2", u, v, TRUE, "success")
    /\ req["r1"].existingProgress = {}
    /\ req["r2"].existingProgress = RowIds(RowsFor(progress, u, v))
    /\ Cardinality(RowsFor(progress, u, v)) = 1
    /\ \A p \in RowsFor(progress, u, v) : p.completed

(***************************************************************************)
(* C3.  Toggle correctness: a write that succeeds leaves exactly one row   *)
(* for its (u, v) and that row carries the flag of the call; the flag of a *)
(* pair changes in no other step, so after a sequential series of calls    *)
(* the flag is the flag of the last call; a call on an existing user and   *)
(* video whose lookup is not overtaken succeeds.                           *)
(***************************************************************************)
C3_ToggleCorrect ==
  [][/\ \A r \in Clients :
          LET u == req[r].user
              v == req[r].videoId
              after == RowsFor(progress', u, v)
          IN WriteStep(r) =>
               /\ req'[r].result = "success" =>
                    /\ Cardinality(after) = 1
                    /\ \A p \in after : p.completed = req[r].completed
               /\ (FreshLookup(r) /\ u \in users /\ v \in RowIds(videos))
                    => req'[r].result = "success"
     /\ \A u \in UserIds, v \in VideoIds :
          LET before == { p.completed : p \in RowsFor(progress, u, v) }
              after == { p.completed : p \in RowsFor(progress', u, v) }
          IN (after # before /\ after # {}) =>
               \E r \in Clients :
                 /\ WriteStep(r)
                 /\ req[r].user = u
                 /\ req[r].videoId = v
                 /\ req'[r].result = "success"
                 /\ after = {req[r].completed}]_vars

\* setCompletion(u, v, TRUE) then setCompletion(u, v, FALSE) have returned
\* and the one row of the pair is not completed
C3_Witness ==
  \E u \in UserIds, v \in VideoIds :
    /\ Returned("r1", u, v, TRUE, "success")
    /\ Returned("r2", u, v, FALSE, "success")
    /\ req["r1"].existingProgress = {}
    /\ req["r2"].existingProgress = RowIds(RowsFor(progress, u, v))
    /\ Cardinality(RowsFor(progress, u, v)) = 1
    /\ \A p \in RowsFor(progress, u, v) : ~p.completed

(***************************************************************************)
(* C4.  setCompletion(userId, videoId, completed) looks the row up by the  *)
(* (userId, videoId) key.  When the pair has no row, the write creates one *)
(* with a fresh id, that key, the given flag and updatedAt = now.  When    *)
(* the row found still exists, the write keeps the set of ids (nothing is  *)
(* created), keeps every other row, and gives that row the given flag and  *)
(* updatedAt = now, its id and key unchanged.                              *)
(***************************************************************************)
C4_LookupThenCreateOrUpdate ==
  [][\A r \in Clients :
       LET u == req[r].user
           v == req[r].videoId
           c == req[r].completed
       IN /\ (req[r].pc # "write" /\ req'[r].pc = "write") =>
               req'[r].existingProgress =
                 RowIds(RowsFor(progress, req'[r].user, req'[r].videoId))
          /\ (WriteStep(r) /\ req[r].existingProgress = {}
                /\ RowsFor(progress, u, v) = {}
                /\ u \in users /\ v \in RowIds(videos)) =>
               /\ req'[r].result = "success"
               /\ \E p \in progress' \ progress :
                    /\ progress' = progress \cup {p}
                    /\ p.id \notin RowIds(progress)
                    /\ p = [id |-> p.id, userId |-> u, videoId |-> v,
                            completed |-> c, updatedAt |-> now]
          /\ (WriteStep(r) /\ req[r].existingProgress # {}
                /\ req[r].existingProgress \subseteq RowIds(progress)) =>
               /\ req'[r].result = "success"
               /\ RowIds(progress') = RowIds(progress)
               /\ Cardinality(progress') = Cardinality(progress)
               /\ \A p \in progress :
                    IF p.id \in req[r].existingProgress
                      THEN [p EXCEPT !.completed = c, !.updatedAt = now] \in progress'
                      ELSE p \in progress']_vars

\* an action has created the row of a pair and a later one has updated the
\* row it found after the clock advanced: the row carries the later time
C4_Witness ==
  \E u \in UserIds, v \in VideoIds :
    /\ Returned("r1", u, v, TRUE, "success")
    /\ Returned("r2", u, v, FALSE, "success")
    /\ req["r1"].existingProgress = {}
    /\ req["r2"].existingProgress # {}
    /\ \E p \in RowsFor(progress, u, v) :
         /\ p.id \in req["r2"].existingProgress
         /\ ~p.completed
         /\ p.updatedAt = MaxClock

(***************************************************************************)
(* C5.  Concurrent actions on the same (user, video) resolve as            *)
(* last-write-wins: both calls complete as writes, also when the pair has  *)
(* no row yet.  Stated for actions whose user and video exist.             *)
(***************************************************************************)
C5_ConcurrentWritesBothComplete ==
  \A r \in Clients :
    ( /\ req[r].pc = "done"
      /\ req[r].kind = "action"
      /\ req[r].user \in users
      /\ req[r].videoId \in RowIds(videos) )
    => req[r].result = "success"

(***************************************************************************)
(* C6.  Independence of keys: the write of an action on (u, v) leaves      *)
(* every row of another (user, video) pair as it is (existence, flag and   *)
(* timestamp) and leaves users, courses, chapters, videos and enrollments  *)
(* as they are.                                                            *)
(***************************************************************************)
C6_OtherKeysUntouched ==
  [][\A r \in Clients :
       WriteStep(r) =>
         /\ progress \ RowsFor(progress, req[r].user, req[r].videoId)
              = progress' \ RowsFor(progress', req[r].user, req[r].videoId)
         /\ users' = users
         /\ courses' = courses
         /\ chapters' = chapters
         /\ videos' = videos
         /\ userCourses' = userCourses]_vars

\* two actions on different pairs have both written: each pair has its row
C6_Witness ==
  \E u1, u2 \in UserIds, v1, v2 \in VideoIds, c1, c2 \in BOOLEAN :
    /\ <<u1, v1>> # <<u2, v2>>
    /\ Returned("r1", u1, v1, c1, "success")
    /\ Returned("r2", u2, v2, c2, "success")
    /\ \E p \in RowsFor(progress, u1, v1) : p.completed = c1
    /\ \E p \in RowsFor(progress, u2, v2) : p.completed = c2

(***************************************************************************)
(* C7.  When the user or the video of an action does not exist at its      *)
(* write, the write fails with the storage's error (P2003, foreign key     *)
(* constraint failed, on create; P2025, record not found, on update of a   *)
(* row that the cascade removed) and user_video_progress is unchanged.     *)
(***************************************************************************)
C7_MissingReferenceFails ==
  [][\A r \in Clients :
       (WriteStep(r) /\ ~(req[r].user \in users /\ req[r].videoId \in RowIds(videos)))
       => /\ req'[r].result \in {"P2003", "P2025"}
          /\ progress' = progress
          /\ nextId' = nextId]_vars

\* an action for a deleted user or video has failed on the foreign key
C7_Witness ==
  \E r \in Clients :
    /\ req[r].pc = "done"
    /\ req[r].kind = "action"
    /\ req[r].result = "P2003"
    /\ ~(req[r].user \in users /\ req[r].videoId \in RowIds(videos))

(***************************************************************************)
(* C8.  Referential integrity: every progress row references an existing   *)
(* user and an existing video, every video an existing chapter, every      *)
(* chapter an existing course and every enrollment an existing user and    *)
(* course, in every reachable state: a deletion takes the rows below it    *)
(* along, also when it falls between the lookup and the write of an action *)
(* on the same pair.                                                       *)
(***************************************************************************)
C8_NoOrphans ==
  /\ \A p \in progress : p.userId \in users /\ p.videoId \in RowIds(videos)
  /\ \A v \in videos : v.chapterId \in RowIds(chapters)
  /\ \A h \in chapters : h.courseId \in courses
  /\ \A e \in userCourses : e.userId \in users /\ e.courseId \in courses

\* an action found the row of its pair, the row's user or video was deleted
\* before the write, and the update found no row: nothing of the pair is left
C8_Witness ==
  \E r \in Clients :
    /\ req[r].pc = "done"
    /\ req[r].kind = "action"
    /\ req[r].result = "P2025"
    /\ req[r].existingProgress # {}
    /\ deletes > 0
    /\ RowsFor(progress, req[r].user, req[r].videoId) = {}

CourseVideos(c) ==
  { v \in videos : \E h \in chapters : h.id = v.chapterId /\ h.courseId = c }

CompletedVideos(u, c) ==
  { v \in CourseVideos(c) :
      \E p \in progress : p.userId = u /\ p.videoId = v.id /\ p.completed }

C10_PerCourseProgress ==
  [][\A r \in Clients, u \in UserIds :
       (DashboardLoader(r, u) /\ u \in users) =>
         LET out == req'[r].data.courses
             enrolled == { e.courseId : e \in { x \in userCourses : x.userId = u } }
         IN /\ req'[r].result = "200"
            /\ { e.id : e \in out } = enrolled
            /\ Cardinality(out) = Cardinality(enrolled)
            /\ \A e \in out :
                 LET total == Cardinality(CourseVideos(e.id))
                     completed == Cardinality(CompletedVideos(u, e.id))
                 IN IF total > 0
                      THEN /\ e.progress[2] > 0
                           /\ e.progress[1] * total = completed * 100 * e.progress[2]
                      ELSE e.progress = <<0, 1>>]_vars

\* a dashboard shows a course at 50% (1 of 2 videos) and a course without
\* videos at 0%
C10_Witness ==
  \E r \in Clients :
    /\ req[r].pc = "done"
    /\ req[r].kind = "dashboard"
    /\ req[r].result = "200"
    /\ \E e1, e2 \in req[r].data.courses :
         /\ e1.progress = <<50, 1>>
         /\ Cardinality(CourseVideos(e1.id)) = 2
         /\ e2.progress = <<0, 1>>
         /\ CourseVideos(e2.id) = {}

(***************************************************************************)
(* C11.  Overall progress is the pooled ratio over the enrolled courses:   *)
(* (sum of completed videos) / (sum of total videos) * 100, and 0 when the *)
(* courses have no video; with 2 of 4 videos completed in course cA and    *)
(* 1 of 1 in course cB it is 60, not the mean 75 of 50 and 100.            *)
(***************************************************************************)
C11_OverallIsPooled ==
  [][\A r \in Clients, u \in UserIds :
       (DashboardLoader(r, u) /\ u \in users) =>
         LET overall == req'[r].data.overallProgress
             enrolled == { e.courseId : e \in { x \in userCourses : x.userId = u } }
             total == Cardinality(UNION { CourseVideos(c) : c \in enrolled })
             completed == Cardinality(UNION { CompletedVideos(u, c) : c \in enrolled })
         IN /\ IF total > 0
                 THEN /\ overall[2] > 0
                      /\ overall[1] * total = completed * 100 * overall[2]
                 ELSE overall = <<0, 1>>
            /\ ( /\ enrolled = {"cA", "cB"}
                 /\ Cardinality(CourseVideos("cA")) = 4
                 /\ Cardinality(CompletedVideos(u, "cA")) = 2
                 /\ Cardinality(CourseVideos("cB")) = 1
                 /\ Cardinality(CompletedVideos(u, "cB")) = 1 )
               => overall = <<60, 1>>]_vars

\* a dashboard shows course cA at 50%, course cB at 100% and 60% overall
C11_Witness ==
  \E r \in Clients :
    /\ req[r].pc = "done"
    /\ req[r].kind = "dashboard"
    /\ req[r].result = "200"
    /\ [id |-> "cA", progress |-> <<50, 1>>] \in req[r].data.courses
    /\ [id |-> "cB", progress |-> <<100, 1>>] \in req[r].data.courses
    /\ req[r].data.overallProgress = <<60, 1>>

Flag(t, u, v) == \E p \in RowsFor(t, u, v) : p.completed

(***************************************************************************)
(* C13.  No stale aggregates: a successful write of setCompletion(u, v, c) *)
(* leaves the flag of (u, v) at c; the flag then changes only by a further *)
(* write or a deletion; and every dashboard computation and every video    *)
(* page load computes from the flags stored when it reads: the per-course  *)
(* percentage and the overall percentage count exactly the videos whose    *)
(* flag is set, and the page's isCompleted is the flag of its video.       *)
(***************************************************************************)
C13_NoStaleAggregates ==
  [][/\ \A r \in Clients :
          (WriteStep(r) /\ req'[r].result = "success")
            => Flag(progress', req[r].user, req[r].videoId) = req[r].completed
     /\ \A u \in UserIds, v \in VideoIds :
          Flag(progress', u, v) # Flag(progress, u, v)
            => \/ \E r \in Clients : WriteStep(r) /\ req[r].user = u /\ req[r].videoId = v
               \/ deletes' # deletes
     /\ \A r \in Clients, u \in UserIds, c \in CourseIds, v \in VideoIds :
          (req'[r].pc = "course" /\ req[r].pc # "course" /\ VideoFind(r, u, c, v))
            => req'[r].data.isCompleted = Flag(progress, u, v)
     /\ \A r \in Clients, u \in UserIds :
          (accepted' # accepted /\ req'[r].kind = "dashboard"
             /\ req'[r].result = "200" /\ req'[r].user = u
             /\ DashboardLoader(r, u)) =>
            LET flagged(c) == { v \in CourseVideos(c) : Flag(progress, u, v.id) }
                enrolled == { e.courseId : e \in { x \in userCourses : x.userId = u } }
                total == Cardinality(UNION { CourseVideos(c) : c \in enrolled })
                overall == req'[r].data.overallProgress
            IN /\ \A e \in req'[r].data.courses :
                    e.progress[1] * Cardinality(CourseVideos(e.id))
                      = Cardinality(flagged(e.id)) * 100 * e.progress[2]
               /\ overall[1] * total
                    = Cardinality(UNION { flagged(c) : c \in enrolled }) * 100 * overall[2]
    ]_vars

\* setCompletion(u, v, TRUE) has returned success and a page load of v by
\* u, which read after it, shows the video as completed
C13_Witness ==
  \E u \in UserIds, v \in VideoIds :
    /\ Returned("r1", u, v, TRUE, "success")
    /\ req["r2"].pc = "done"
    /\ req["r2"].kind = "video"
    /\ req["r2"].result = "200"
    /\ req["r2"].user = u
    /\ req["r2"].videoId = v
    /\ req["r2"].data.isCompleted
    /\ v \in req["r2"].data.completedVideos

(***************************************************************************)
(* Vocabulary of the resolver's properties: the patterns as the            *)
(* specification words them, by positions in the URL.                      *)
(***************************************************************************)
Rendered(r) == req[r].pc = "rendered"

Occurs(lit, url, i) ==
  /\ i + Len(lit) - 1 <= Len(url)
  /\ SubSeq(url, i, i + Len(lit) - 1) = lit

\* the length of the longest run of characters of class at position j
RunLen(url, j, class) ==
  CHOOSE n \in 0..Len(url) :
    /\ \A k \in 0..(n - 1) : j + k <= Len(url) /\ url[j + k] \in class
    /\ j + n > Len(url) \/ url[j + n] \notin class

\* the positions where an id part starts: right after youtu.be/,
\* youtube.com/embed/, youtube.com/v/ or youtube.com/watch?v=
YoutubeIdStarts(url) ==
  { j \in 1..(Len(url) + 1) :
      \E l \in YoutubeLiterals : j > Len(l) /\ Occurs(l, url, j - Len(l)) }

\* the positions where the digits of a Vimeo id start: right after vimeo.com/
VimeoIdStarts(url) ==
  { j \in 1..(Len(url) + 1) :
      j > Len(VimeoCom) /\ Occurs(VimeoCom, url, j - Len(VimeoCom)) }

MatchesYoutube(url) ==
  \E j \in YoutubeIdStarts(url) : RunLen(url, j, WordOrDash) >= IdLen

\* the YouTube pattern as the specification words it: an id part of exactly
\* IdLen characters
MatchesYoutubeExactly(url) ==
  \E j \in YoutubeIdStarts(url) : RunLen(url, j, WordOrDash) = IdLen

MatchesVimeo(url) ==
  \E j \in VimeoIdStarts(url) : RunLen(url, j, Digit) >= 1

(***************************************************************************)
(* C14.  A URL that contains youtu.be/<id>, youtube.com/embed/<id>,        *)
(* youtube.com/v/<id> or youtube.com/watch?v=<id> with an id part of       *)
(* exactly 11 characters of [A-Za-z0-9_-] resolves as YouTube with that    *)
(* id; a URL whose id part in those positions is not exactly 11 such       *)
(* characters does not resolve as YouTube.                                 *)
(***************************************************************************)
C14_YoutubeIdExactlyEleven ==
  \A r \in Clients :
    Rendered(r) =>
      LET url == req[r].data.videoUrl
          info == req[r].data.videoInfo
          exact == { j \in YoutubeIdStarts(url) : RunLen(url, j, WordOrDash) = IdLen }
      IN /\ exact # {} =>
              /\ info.type = "youtube"
              /\ \E j \in exact : info.id = SubSeq(url, j, j + IdLen - 1)
         /\ exact = {} => info.type # "youtube"

(***************************************************************************)
(* C15.  Precedence: a URL that matches the YouTube pattern resolves as    *)
(* YouTube, also when it contains vimeo.com/<digits>, before or after.     *)
(***************************************************************************)
C15_YoutubeBeforeVimeo ==
  \A r \in Clients :
    (Rendered(r) /\ MatchesYoutube(req[r].data.videoUrl))
      => LET url == req[r].data.videoUrl
             info == req[r].data.videoInfo
         IN /\ info.type = "youtube"
            /\ \E j \in YoutubeIdStarts(url) :
                 /\ RunLen(url, j, WordOrDash) >= IdLen
                 /\ info.id = SubSeq(url, j, j + IdLen - 1)

\* a rendered URL where vimeo.com/<digits> stands before the YouTube match,
\* resolved as YouTube
C15_Witness ==
  \E r \in Clients :
    /\ Rendered(r)
    /\ req[r].data.videoInfo.type = "youtube"
    /\ \E v \in VimeoIdStarts(req[r].data.videoUrl),
          y \in YoutubeIdStarts(req[r].data.videoUrl) :
         /\ v < y
         /\ RunLen(req[r].data.videoUrl, v, Digit) >= 1
         /\ RunLen(req[r].data.videoUrl, y, WordOrDash) >= IdLen

(***************************************************************************)
(* C16.  The resolver is total: every loaded page renders, and the result  *)
(* is a YouTube reference, a Vimeo reference or Unsupported (null); it is  *)
(* Unsupported exactly when the URL matches neither the YouTube pattern    *)
(* (an id part of exactly 11 characters) nor the Vimeo pattern, and the    *)
(* page then shows the fallback text and no player.                        *)
(***************************************************************************)
C16_UnsupportedIffNeitherPattern ==
  \A r \in Clients :
    /\ (req[r].pc = "done" /\ req[r].kind = "video" /\ req[r].result = "200")
         => ENABLED VideoDetail(r)
    /\ Rendered(r) =>
         LET url == req[r].data.videoUrl
             info == req[r].data.videoInfo
         IN /\ info = Null <=> (~ MatchesYoutubeExactly(url) /\ ~ MatchesVimeo(url))
            /\ info = Null =>
                 req[r].data.playerArea = {[element |-> "p", src |-> <<>>]}

\* the same with the YouTube pattern read as the code's: an id part of IdLen
\* characters or more
C16_ResolverTotal ==
  \A r \in Clients :
    /\ (req[r].pc = "done" /\ req[r].kind = "video" /\ req[r].result = "200")
         => ENABLED VideoDetail(r)
    /\ Rendered(r) =>
         LET url == req[r].data.videoUrl
             info == req[r].data.videoInfo
             area == req[r].data.playerArea
         IN /\ \/ info = Null
               \/ info.type \in {"youtube", "vimeo"} /\ Len(info.id) >= 1
            /\ info = Null <=> (~ MatchesYoutube(url) /\ ~ MatchesVimeo(url))
            /\ info = Null => area = {[element |-> "p", src |-> <<>>]}
            /\ info # Null =>
                 /\ Cardinality(area) = 1
                 /\ \A e \in area : e.element = "iframe"

\* a rendered URL of another site: Unsupported, the fallback text shown
C16_Witness ==
  \E r \in Clients :
    /\ Rendered(r)
    /\ req[r].data.videoInfo = Null
    /\ req[r].data.playerArea = {[element |-> "p", src |-> <<>>]}
    /\ Len(req[r].data.videoUrl) > IdLen
    /\ YoutubeIdStarts(req[r].data.videoUrl) = {}
    /\ VimeoIdStarts(req[r].data.videoUrl) = {}

(***************************************************************************)
(* C17.  A URL that does not match the YouTube pattern (no id part of      *)
(* exactly 11 characters) and contains vimeo.com/<digits> resolves as      *)
(* Vimeo, and the id is the whole run of digits that follows vimeo.com/.   *)
(***************************************************************************)
C17_VimeoUnlessYoutube ==
  \A r \in Clients :
    (Rendered(r) /\ ~ MatchesYoutubeExactly(req[r].data.videoUrl)
       /\ MatchesVimeo(req[r].data.videoUrl))
      => LET url == req[r].data.videoUrl
             info == req[r].data.videoInfo
         IN /\ info.type = "vimeo"
            /\ \E j \in VimeoIdStarts(url) :
                 /\ RunLen(url, j, Digit) >= 1
                 /\ info.id = SubSeq(url, j, j + RunLen(url, j, Digit) - 1)

\* the same with the YouTube pattern read as the code's: an id part of IdLen
\* characters or more
C17_VimeoWholeDigitRun ==
  \A r \in Clients :
    (Rendered(r) /\ ~ MatchesYoutube(req[r].data.videoUrl)
       /\ MatchesVimeo(req[r].data.videoUrl))
      => LET url == req[r].data.videoUrl
             info == req[r].data.videoInfo
         IN /\ info.type = "vimeo"
            /\ \E j \in VimeoIdStarts(url) :
                 /\ RunLen(url, j, Digit) >= 1
                 /\ info.id = SubSeq(url, j, j + RunLen(url, j, Digit) - 1)
                 /\ \A k \in VimeoIdStarts(url) :
                      k < j => RunLen(url, k, Digit) = 0

\* a rendered vimeo.com/<digits> URL resolved as Vimeo with a long id that
\* ends where the URL goes on with other characters
C17_Witness ==
  \E r \in Clients :
    /\ Rendered(r)
    /\ req[r].data.videoInfo.type = "vimeo"
    /\ Len(req[r].data.videoInfo.id) >= 8
    /\ \E j \in VimeoIdStarts(req[r].data.videoUrl) :
         j + Len(req[r].data.videoInfo.id) <= Len(req[r].data.videoUrl)

C19_AuthenticationGate ==
  [][\A r \in Clients :
       /\ ( /\ accepted' # accepted
            /\ \A q \in Clients \ {r} : req'[q] = req[q]
            /\ \/ /\ req'[r].kind = "action"
                  /\ \E v \in VideoIds \cup {NoParam}, c \in BOOLEAN :
                       ActionFind(r, NoUser, v, c)
               \/ /\ req'[r].kind = "dashboard"
                  /\ DashboardLoader(r, NoUser)
               \/ /\ req'[r].kind = "video"
                  /\ \E c \in CourseIds \cup {NoParam}, v \in VideoIds \cup {NoParam} :
                       VideoFind(r, NoUser, c, v)
               \/ /\ req'[r].kind = "course"
                  /\ \E c \in CourseIds \cup {NoParam} : CourseLoader(r, NoUser, c) )
          => /\ req'[r] = [Idle EXCEPT !.pc = "done", !.kind = req'[r].kind,
                                       !.result = "redirect:/login"]
             /\ storage' = storage
       /\ req'[r].pc \in {"write", "course"} => req'[r].user \in UserIds
       /\ req'[r].result \in {"200", "success"} => req'[r].user \in UserIds
       /\ WriteStep(r) =>
            /\ req[r].user \in UserIds
            /\ \A p \in progress' \ progress : p.userId = req[r].user
    ]_vars

\* a progress action and a video page load, both without a session, have
\* been redirected and no row exists
C19_Witness ==
  /\ req["r1"].pc = "done"
  /\ req["r1"].kind = "action"
  /\ req["r1"].result = "redirect:/login"
  /\ req["r2"].pc = "done"
  /\ req["r2"].kind = "video"
  /\ req["r2"].result = "redirect:/login"
  /\ progress = {}

\* the rows of user a, all that a's pages and percentages may depend on
OwnRows(t, a) == { p \in t : p.userId = a }

(***************************************************************************)
(* C20.  Per-user isolation: the write of an action of user B touches only *)
(* rows of B, and leaves the rows of every other user A and the completion *)
(* state computed for A (isCompleted of every video, the completed videos  *)
(* of every course page) as they were; no other step of a request changes  *)
(* storage; and the isCompleted, the completed videos and the percentages  *)
(* that the loaders return to A are determined by the rows of A alone.     *)
(***************************************************************************)
C20_PerUserIsolation ==
  [][\A r \in Clients :
       /\ WriteStep(r) =>
            /\ \A p \in (progress' \ progress) \cup (progress \ progress') :
                 p.userId = req[r].user
            /\ \A a \in UserIds \ {req[r].user} :
                 /\ OwnRows(progress', a) = OwnRows(progress, a)
                 /\ \A v \in VideoIds :
                      IsCompleted(UserProgress(a, v))' = IsCompleted(UserProgress(a, v))
                 /\ \A c \in CourseIds :
                      SidebarCompleted(a, c)' = SidebarCompleted(a, c)
       /\ accepted' # accepted => storage' = storage
       /\ (req'[r].pc = "course" /\ req[r].pc # "course")
            => req'[r].data.isCompleted =
                 \E p \in OwnRows(progress, req'[r].user) :
                   p.videoId = req'[r].videoId /\ p.completed
       /\ (req[r].pc = "course" /\ req'[r].result = "200")
            => req'[r].data.completedVideos =
                 { v.id : v \in { x \in CourseVideos(req[r].courseId) :
                     \E p \in OwnRows(progress, req[r].user) :
                       p.videoId = x.id /\ p.completed } }
       /\ (accepted' # accepted /\ req'[r].kind = "dashboard"
             /\ req'[r].result = "200" /\ DashboardLoader(r, req'[r].user))
            => \A e \in req'[r].data.courses :
                 LET own == { v \in CourseVideos(e.id) :
                                \E p \in OwnRows(progress, req'[r].user) :
                                  p.videoId = v.id /\ p.completed }
                 IN e.progress[1] * Cardinality(CourseVideos(e.id))
                      = Cardinality(own) * 100 * e.progress[2]
    ]_vars

\* u1 has marked v1 watched, and the page of v1 that u2 loaded afterwards
\* shows it as not completed
C20_Witness ==
  /\ Returned("r1", "u1", "v1", TRUE, "success")
  /\ Flag(progress, "u1", "v1")
  /\ req["r2"].pc = "done"
  /\ req["r2"].kind = "video"
  /\ req["r2"].result = "200"
  /\ req["r2"].user = "u2"
  /\ req["r2"].videoId = "v1"
  /\ ~ req["r2"].data.isCompleted
  /\ req["r2"].data.completedVideos = {}

(***************************************************************************)
(* Vocabulary of the login's properties.                                   *)
(***************************************************************************)
\* the step of client r is the create or update of its login, and its return
SyncStep(r) ==
  req[r].kind = "login" /\ req[r].pc = "sync" /\ req'[r].pc = "done"

\* the User rows of table t with id i
UserRows(t, i) == { u \in t : u.id = i }

\* the sync of r's login leaves one row for its identity: created if there
\* was none, the same row updated if there was one, no other row touched
OneRowAfterSync(r) ==
  LET i == (CHOOSE d \in req[r].supabaseUser : TRUE).id
  IN /\ Cardinality(UserRows(users', i)) = 1
     /\ UserRows(users, i) = {} => users' = users \cup UserRows(users', i)
     /\ UserRows(users, i) # {} => { u.id : u \in users' } = { u.id : u \in users }
     /\ users' \ UserRows(users', i) = users \ UserRows(users, i)

(***************************************************************************)
(* C21.  Login synchronisation: when a login succeeds for identity i,      *)
(* exactly one User row with id i exists (created if absent, updated in    *)
(* place if present, under any interleaving of logins), and the user       *)
(* returned to the session equals that row as it is after the sync; a      *)
(* login that fails (email or password missing, credentials rejected, or   *)
(* the sync rejected by storage) creates or changes no User row.           *)
(***************************************************************************)
C21_LoginSynchronisation ==
  [][\A r \in Clients :
       /\ (SyncStep(r) /\ req'[r].result = "success") =>
            /\ OneRowAfterSync(r)
            /\ req'[r].sessionUser =
                 UserRows(users', (CHOOSE d \in req[r].supabaseUser : TRUE).id)
       /\ (SyncStep(r) /\ req'[r].result # "success") => users' = users
       /\ accepted' # accepted => users' = users
    ]_vars

\* the same without the returned user on the update path: what the session
\* receives there is the row as the lookup found it
C21_SyncKeepsOneRow ==
  [][\A r \in Clients :
       /\ (SyncStep(r) /\ req'[r].result = "success") =>
            /\ OneRowAfterSync(r)
            /\ req[r].user = {} =>
                 req'[r].sessionUser =
                   UserRows(users', (CHOOSE d \in req[r].supabaseUser : TRUE).id)
            /\ req[r].user # {} => req'[r].sessionUser = req[r].user
       /\ (SyncStep(r) /\ req'[r].result # "success") => users' = users
       /\ accepted' # accepted => users' = users
    ]_vars

\* a second login of u1 has succeeded after the provider made the user an
\* admin: the row says admin, the session says user
C21_StaleSessionUser ==
  \E r \in Clients :
    /\ req[r].kind = "login"
    /\ req[r].result = "success"
    /\ \E s \in req[r].sessionUser, u \in users :
         s.id = u.id /\ s.role = "user" /\ u.role = "admin"

====
